---- MODULE Spec2Model ----
(***************************************************************************)
(* Model of src/app.py: the remote query client (arcgis_query), the        *)
(* property resolver (get_property_by_folio), the paging loop and the date *)
(* window of get_recent_sales_in_polygon, the geometry simplifier          *)
(* (_perp, _dp, simplify_rings), the folio formatter and parser            *)
(* (format_md_folio, normalize_folios), the bulk resolver                  *)
(* (bulk_properties_by_folios), the memo caches of st.cache_data and the   *)
(* retrying HTTP session (get_http).                                       *)
(*                                                                         *)
(* Text values (folios, where-clause literals) are sequences of            *)
(* one-character strings.  Python's None is the record None.               *)
(***************************************************************************)
EXTENDS Integers, Sequences, FiniteSets, TLC

VARIABLES
    \* ---- remote query client (arcgis_query) ----
    q_exch,          \* the outcome of the HTTP exchange of the call under study
    q_out,           \* what arcgis_query did with it: [ret, diag, raised]
    q_pc,            \* "call" | "returned"
    \* ---- property resolver (get_property_by_folio) ----
    folio,           \* argument folio
    prefer_mapserver,\* argument prefer_mapserver
    folio_field,     \* field name found by the schema discovery (FeatureServer)
    db,              \* what each remote source holds: source -> set of stored FOLIO values
    pc,              \* "START" | "TRY_PRIMARY" | "TRY_SECONDARY" | "DONE" | "NOT_FOUND"
    widx,            \* index of the next where-candidate of the source being tried
    invoked,         \* history: the sources whose query function this lookup called
    log,             \* history: the queries issued by this lookup, in order
    result,          \* the value returned (None until a record is found)
    seen,            \* history: (situation, returned value) of the finished lookups
    \* ---- paging loop (get_recent_sales_in_polygon._paged) ----
    pg_service,      \* "exact": answers each page exactly; "any": answers anything
    pg_N,            \* the number of matching records an exact service holds
    pg_cap,          \* cap (= max_rows)
    pg_rows,         \* rows, as the runs of records appended: <<[from, n], ...>>
    pg_offset,       \* offset
    pg_reqs,         \* history: the page requests issued, in order
    pg_pc,           \* "loop" | "done"
    \* ---- date window (get_recent_sales_in_polygon, lines 472-502) ----
    s_attrs,         \* attrs: the sale records the paging loop collected
    s_days,          \* argument days
    s_out,           \* [raised, rows]: the outcome of the call
    s_pc,            \* "call" | "done"
    \* ---- geometry (simplify_rings, get_zones_in_polygon) ----
    g_rings,         \* argument rings
    g_out,           \* the rings produced (simplify_rings) or sent (area queries)
    g_called,        \* whether simplify_rings was called by the area query
    g_pc,            \* "input" | "simplified" | "sent"
    \* ---- folio formatter (format_md_folio) ----
    f_in,            \* argument input_str (a text or None)
    f_out,           \* the pair returned: [hyph, digits]
    f_pc,            \* "call" | "returned"
    \* ---- bulk text parser (normalize_folios) ----
    n_text,          \* argument text
    n_out,           \* the list returned
    n_sep,           \* the separator its output is joined with for the second parse
    n_again,         \* the list returned for the joined output
    n_pc,            \* "call" | "parsed" | "reparsed"
    \* ---- bulk resolver (tab_bulk, bulk_properties_by_folios) ----
    b_upload,        \* the 'folio' column of the uploaded CSV
    b_prefer,        \* prefer_mapserver_bulk
    b_env,           \* the remote services during the run: [table, fault]
    b_list,          \* input_folios / folio_list
    b_i,             \* index of the next element of folio_list
    b_rows,          \* rows
    b_calls,         \* history: the calls of get_property_by_folio, in order
    b_out,           \* the rows of the frame returned
    b_pc,            \* "input" | "loop" | "done"
    \* ---- memo caches (st.cache_data on arcgis_query, get_property_by_folio) ----
    c_now,           \* the clock, in seconds
    c_up,            \* whether the remote services answer
    c_table,         \* the records each source holds, in table order
    c_qcache,        \* entries of arcgis_query: query -> [val, written] or None
    c_rcache,        \* entries of get_property_by_folio: arguments -> entry or None
    c_last,          \* history: the last call and what it did
    \* ---- HTTP session (get_http: Retry mounted on the session) ----
    h_method,        \* "GET" | "POST"
    h_total,         \* Retry.total left
    h_connect,       \* Retry.connect left
    h_read,          \* Retry.read left
    h_attempts,      \* history: how each attempt of the request ended
    h_sleeps,        \* history: the wait before each retry (tenths of a second)
    h_result,        \* "response" | "raised" once the session call is over
    h_pc             \* "send" | "done"

qvars == <<q_exch, q_out, q_pc>>
lvars == <<folio, prefer_mapserver, folio_field, db, pc, widx, invoked, log, result, seen>>
pvars == <<pg_service, pg_N, pg_cap, pg_rows, pg_offset, pg_reqs, pg_pc>>
svars == <<s_attrs, s_days, s_out, s_pc>>
gvars == <<g_rings, g_out, g_called, g_pc>>
fvars == <<f_in, f_out, f_pc>>
\* the variables of the later sections, and for each of them all the others
nvars == <<n_text, n_out, n_sep, n_again, n_pc>>
bvars == <<b_upload, b_prefer, b_env, b_list, b_i, b_rows, b_calls, b_out, b_pc>>
cvars == <<c_now, c_up, c_table, c_qcache, c_rcache, c_last>>
hvars == <<h_method, h_total, h_connect, h_read, h_attempts, h_sleeps, h_result, h_pc>>
xvars == <<fvars, nvars, bvars, cvars, hvars>>
corevars == <<qvars, lvars, pvars, svars, gvars>>
not_f == <<corevars, nvars, bvars, cvars, hvars>>
not_n == <<corevars, fvars, bvars, cvars, hvars>>
not_b == <<corevars, fvars, nvars, cvars, hvars>>
not_c == <<corevars, fvars, nvars, bvars, hvars>>
not_h == <<corevars, fvars, nvars, bvars, cvars>>
vars == <<corevars, xvars>>

-----------------------------------------------------------------------------
(* Python values *)

None == [none |-> TRUE]

Min(a, b) == IF a <= b THEN a ELSE b
Max(a, b) == IF a >= b THEN a ELSE b

DigitChars == {"0", "1", "2", "3", "4", "5", "6", "7", "8", "9"}

\* a character that is a digit to str.isdigit() and not a decimal digit:
\* U+00B2 SUPERSCRIPT TWO, written "sup2" here
SuperscriptDigits == {"sup2"}

\* ch.isdigit()
IsDigit(ch) == ch \in DigitChars \cup SuperscriptDigits

\* "".join(ch for ch in s if ch.isdigit())
DigitsOf(s) == SelectSeq(s, IsDigit)

\* the whitespace characters of the inputs
Whitespace == {" ", "\t", "\n", "\r"}

RECURSIVE LStrip(_)
LStrip(s) == IF s # <<>> /\ Head(s) \in Whitespace THEN LStrip(Tail(s)) ELSE s

RECURSIVE RStrip(_)
RStrip(s) ==
    IF s # <<>> /\ s[Len(s)] \in Whitespace THEN RStrip(SubSeq(s, 1, Len(s) - 1)) ELSE s

\* str.strip()
Strip(s) == RStrip(LStrip(s))

\* f"{d[0:2]}-{d[2:6]}-{d[6:9]}-{d[9:13]}"
Hyphenate(d) ==
    SubSeq(d, 1, 2) \o <<"-">> \o SubSeq(d, 3, 6) \o <<"-">>
        \o SubSeq(d, 7, 9) \o <<"-">> \o SubSeq(d, 10, 13)

FolioDigits == 13

\* get_property_by_folio.hyph
hyph(d) == IF Len(d) = FolioDigits THEN Hyphenate(d) ELSE d

\* get_property_by_folio.esc : s.replace("'", "''")
RECURSIVE esc(_)
esc(s) ==
    IF s = <<>> THEN <<>>
    ELSE (IF Head(s) = "'" THEN <<"'", "'">> ELSE <<Head(s)>>) \o esc(Tail(s))

\* t occurs in s as a contiguous run (SQL LIKE '%t%')
IsSubstring(t, s) ==
    \E i \in 0..(Len(s) - Len(t)) : SubSeq(s, i + 1, i + Len(t)) = t

-----------------------------------------------------------------------------
(* Remote query client: arcgis_query, lines 102-136 *)

\* The HTTP exchange as the session delivers it to arcgis_query.
\* net: how the transport ended; status: the final status code;
\* body: the response body as r.json() sees it.
ErrorValues ==
    { [k |-> "absent"],          \* no "error" member
      [k |-> "null"],            \* "error": null
      [k |-> "empty"],           \* "error": {}  or  ""
      [k |-> "dict_message"],    \* "error": {"code": 400, "message": "..."}
      [k |-> "dict_nomessage"],  \* "error": {"code": 400}
      [k |-> "string"],          \* "error": "..."
      [k |-> "list"] }           \* "error": ["..."]

\* Python truthiness of data.get("error")
Truthy(e) == e.k \in {"dict_message", "dict_nomessage", "string", "list"}

\* whether the value has a .get method (a dict)
HasGet(e) == e.k \in {"dict_message", "dict_nomessage", "empty"}

DictBody(e, f) == [t |-> "dict", error |-> e, features |-> f]
NotJson == [t |-> "notjson"]
ListBody == [t |-> "list"]

StatusCodes == {200, 400, 404, 429, 500, 503}

Exchange(n, s, b) == [net |-> n, status |-> s, body |-> b]

\* HTTP.get / HTTP.post raise on a transport failure (lines 115-123)
TransportRaises(x) == x.net # "ok"

\* r.raise_for_status() (line 125)
StatusRaises(x) == x.status >= 400

\* r.json() (line 126)
JsonRaises(x) == x.body.t = "notjson"

\* isinstance(data, dict) and data.get("error") (line 127)
ReportsError(x) == x.body.t = "dict" /\ Truthy(x.body.error)

\* err.get("message") on a value that is not a dict (line 130)
ErrGetRaises(x) == ReportsError(x) /\ ~HasGet(x.body.error)

\* Whether the statements of the try block (lines 112-133) raise.
TryRaises(x) ==
    \/ TransportRaises(x)
    \/ StatusRaises(x)
    \/ JsonRaises(x)
    \/ ErrGetRaises(x)

\* a plausible slip: the handler names requests' exceptions only, so that a
\* body that does not parse, or an error member without .get, escapes it
arcgis_query_narrow_except(x) ==
    IF TransportRaises(x) \/ StatusRaises(x)
    THEN [ret |-> None, diag |-> "unavailable", raised |-> FALSE]
    ELSE IF JsonRaises(x) \/ ErrGetRaises(x)
    THEN [ret |-> None, diag |-> "none", raised |-> TRUE]
    ELSE IF ReportsError(x)
    THEN [ret |-> None, diag |-> "arcgis_error", raised |-> FALSE]
    ELSE [ret |-> x.body, diag |-> "none", raised |-> FALSE]

\* arcgis_query: the value returned, the st.info diagnostic emitted, and
\* whether an exception leaves the function.
arcgis_query(x) ==
    IF TryRaises(x)
    THEN \* except Exception (lines 134-136)
         [ret |-> None, diag |-> "unavailable", raised |-> FALSE]
    ELSE IF ReportsError(x)
    THEN \* lines 128-132
         [ret |-> None, diag |-> "arcgis_error", raised |-> FALSE]
    ELSE \* line 133
         [ret |-> x.body, diag |-> "none", raised |-> FALSE]

\* (data or {}).get("features", [])
\* (a body without a "features" member is a DictBody with features <<>>: the
\* callers test only the truth of the list)
FeaturesOf(data) ==
    IF data = None THEN <<>>
    ELSE IF data.t = "dict" THEN data.features
    ELSE <<>>

-----------------------------------------------------------------------------
(* Property resolver: get_property_by_folio, lines 248-342 *)

MapServer == "MapServer/70"
FeatureServer == "FeatureServer/0"
Sources == {MapServer, FeatureServer}

D13 == <<"3", "5", "3", "0", "0", "7", "0", "1", "9", "1", "1", "0", "0">>

\* the folio texts a caller passes (lines 521, 597, 733: never empty)
FolioInputs ==
    { D13,                          \* 13 digits
      Hyphenate(D13),               \* the same folio, hyphenated
      <<"1", "2">>,                 \* too short to be canonical
      <<"O", "'", "B">>,            \* no digit, an embedded quote
      <<" ">> }                     \* blank

\* the FOLIO values a source may hold
StoredFolios ==
    { Hyphenate(D13),               \* matches the hyphenated literal exactly
      D13,                          \* matches the 13-digit literal exactly
      <<"9">> \o D13 }             \* another parcel: matches only LIKE '%digits%'

\* the field name the schema discovery of _query_featureserver0 ends with
\* (lines 308-317; "folio" is the hardcoded default)
FolioFieldNames == {"folio", "FOLIO"}

\* lines 252-258
raw(f) == Strip(f)
digits(f) == DigitsOf(raw(f))
hyphenated(f) == IF digits(f) # <<>> THEN hyph(digits(f)) ELSE raw(f)

Where(fld, o, v) == [field |-> fld, op |-> o, lit |-> esc(v)]

\* a slip in the order of the candidates: LIKE before the exact matches
wheres_like_first(src, f, ff) ==
    LET fld == IF src = MapServer THEN "FOLIO" ELSE ff IN
    (IF Len(digits(f)) = FolioDigits
        THEN <<Where(fld, "LIKE", digits(f)), Where(fld, "=", digits(f))>>
        ELSE <<>>)
    \o (IF hyphenated(f) # <<>> THEN <<Where(fld, "=", hyphenated(f))>> ELSE <<>>)

\* the where-candidates of a source, in the order tried
\* (lines 270-275 and 325-329)
wheres(src, f, ff) ==
    LET fld == IF src = MapServer THEN "FOLIO" ELSE ff IN
    (IF hyphenated(f) # <<>> THEN <<Where(fld, "=", hyphenated(f))>> ELSE <<>>)
    \o (IF Len(digits(f)) = FolioDigits
        THEN <<Where(fld, "=", digits(f)), Where(fld, "LIKE", digits(f))>>
        ELSE <<>>)

\* The remote service's evaluation of a where-clause on a stored value.
Matches(w, stored) ==
    IF w.op = "=" THEN esc(stored) = w.lit
    ELSE IsSubstring(w.lit, esc(stored))

\* all orderings of a finite set, as sequences
Orderings(S) ==
    { s \in [1..Cardinality(S) -> S] : \A i, j \in 1..Cardinality(S) : i # j => s[i] # s[j] }

\* What the HTTP exchange of a where-query against a source can be: the
\* service answers with the matching records in some order, or the exchange
\* fails in one of the ways arcgis_query handles.
FailedExchanges ==
    { Exchange("timeout", 0, NotJson),
      Exchange("ok", 503, NotJson),
      Exchange("ok", 200, DictBody([k |-> "dict_message"], <<>>)) }

AnswersTo(w, stored) ==
    { Exchange("ok", 200, DictBody([k |-> "absent"], fs)) :
        fs \in Orderings({r \in stored : Matches(w, r)}) }

\* a slip: the fallback is the source already tried
second_same_as_first(p) == IF p THEN MapServer ELSE FeatureServer

\* lines 340-341
first(p) == IF p THEN MapServer ELSE FeatureServer
second(p) == IF p THEN FeatureServer ELSE MapServer

\* lines 282-304 and 336-337: the record built from feats[0]
record(src, w, feats) ==
    [attributes |-> [folio |-> feats[1]], source |-> src, where_used |-> w]

\* the source the lookup is trying
cur == IF pc = "TRY_PRIMARY" THEN first(prefer_mapserver) ELSE second(prefer_mapserver)

\* how a finished lookup that returned None came about
Situation ==
    IF \E i \in 1..Len(log) : log[i].failed THEN "unavailable" ELSE "not_found"

\* The parts of the program are modelled side by side: each specification
\* below runs one of them and leaves the others idle.
QIdle == q_exch = None /\ q_out = None /\ q_pc = "idle"

LIdle ==
    /\ folio = <<>> /\ prefer_mapserver = TRUE /\ folio_field = "folio"
    /\ db = [s \in Sources |-> {}]
    /\ pc = "idle" /\ widx = 1 /\ invoked = <<>> /\ log = <<>>
    /\ result = None /\ seen = {}

PIdle ==
    /\ pg_service = "idle" /\ pg_N = 0 /\ pg_cap = 0 /\ pg_rows = <<>>
    /\ pg_offset = 0 /\ pg_reqs = <<>> /\ pg_pc = "idle"

SIdle == s_attrs = <<>> /\ s_days = 0 /\ s_out = None /\ s_pc = "idle"

GIdle == g_rings = <<>> /\ g_out = <<>> /\ g_called = FALSE /\ g_pc = "idle"

FIdle == f_in = None /\ f_out = None /\ f_pc = "idle"

NIdle ==
    /\ n_text = <<>> /\ n_out = <<>> /\ n_sep = <<>> /\ n_again = <<>>
    /\ n_pc = "idle"

BIdle ==
    /\ b_upload = <<>> /\ b_prefer = TRUE /\ b_env = None /\ b_list = <<>>
    /\ b_i = 0 /\ b_rows = <<>> /\ b_calls = <<>> /\ b_out = <<>>
    /\ b_pc = "idle"

CIdle ==
    /\ c_now = 0 /\ c_up = TRUE /\ c_table = None /\ c_qcache = None
    /\ c_rcache = None /\ c_last = None

HIdle ==
    /\ h_method = "GET" /\ h_total = 0 /\ h_connect = 0 /\ h_read = 0
    /\ h_attempts = <<>> /\ h_sleeps = <<>> /\ h_result = "none"
    /\ h_pc = "idle"

XIdle == FIdle /\ NIdle /\ BIdle /\ CIdle /\ HIdle

CoreIdle == QIdle /\ LIdle /\ PIdle /\ SIdle /\ GIdle

-----------------------------------------------------------------------------
(* Specification of the remote query client alone *)

AllExchanges ==
    { Exchange("timeout", 0, NotJson), Exchange("connection_error", 0, NotJson) }
    \cup { Exchange("ok", s, b) :
            s \in StatusCodes,
            b \in {NotJson, ListBody}
                  \cup { DictBody(e, f) : e \in ErrorValues, f \in {<<>>, <<D13>>} } }

QInit ==
    /\ q_exch \in AllExchanges
    /\ q_out = None
    /\ q_pc = "call"

\* one call of arcgis_query
QCall ==
    /\ q_pc = "call"
    /\ q_out' = arcgis_query(q_exch)
    /\ q_pc' = "returned"
    /\ UNCHANGED q_exch
    /\ UNCHANGED <<lvars, pvars, svars, gvars, xvars>>

\* the next call, with another exchange
QAgain ==
    /\ q_pc = "returned"
    /\ q_exch' \in AllExchanges
    /\ q_out' = None
    /\ q_pc' = "call"
    /\ UNCHANGED <<lvars, pvars, svars, gvars, xvars>>

QNext == QCall \/ QAgain

InitQuery == QInit /\ LIdle /\ PIdle /\ SIdle /\ GIdle /\ XIdle

SpecQuery == InitQuery /\ [][QNext]_vars

-----------------------------------------------------------------------------
(* Specification of the property resolver *)

LInit ==
    /\ folio \in FolioInputs
    /\ prefer_mapserver \in BOOLEAN
    /\ folio_field \in FolioFieldNames
    /\ db \in [Sources -> SUBSET StoredFolios]
    /\ pc = "START"
    /\ widx = 1
    /\ invoked = <<>>
    /\ log = <<>>
    /\ result = None
    /\ seen = {}

\* lines 250-251 and 340-342: the call, up to the call of first()
Start ==
    /\ pc = "START"
    /\ IF folio = <<>>
       THEN /\ pc' = "NOT_FOUND"
            /\ UNCHANGED invoked
       ELSE /\ pc' = "TRY_PRIMARY"
            /\ invoked' = <<first(prefer_mapserver)>>
    /\ widx' = 1
    /\ UNCHANGED <<folio, prefer_mapserver, folio_field, db, log, result, seen>>
    /\ UNCHANGED <<qvars, pvars, svars, gvars, xvars>>

\* one iteration of the loop over wheres (lines 276-304, 330-337)
QueryStep ==
    /\ pc \in {"TRY_PRIMARY", "TRY_SECONDARY"}
    /\ widx <= Len(wheres(cur, folio, folio_field))
    /\ LET w == wheres(cur, folio, folio_field)[widx] IN
       \E x \in FailedExchanges \cup AnswersTo(w, db[cur]) :
          LET data == arcgis_query(x).ret
              feats == FeaturesOf(data)
          IN /\ log' = Append(log, [src |-> cur, w |-> w,
                                    failed |-> x \in FailedExchanges,
                                    feats |-> IF x \in FailedExchanges THEN <<>>
                                              ELSE x.body.features])
             /\ IF feats # <<>>
                THEN /\ result' = record(cur, w, feats)
                     /\ pc' = "DONE"
                     /\ UNCHANGED widx
                ELSE /\ widx' = widx + 1
                     /\ UNCHANGED <<result, pc>>
    /\ UNCHANGED <<folio, prefer_mapserver, folio_field, db, invoked, seen>>
    /\ UNCHANGED <<qvars, pvars, svars, gvars, xvars>>

\* first() returned None: "first() or second()" calls second() (line 342)
TrySecondary ==
    /\ pc = "TRY_PRIMARY"
    /\ widx > Len(wheres(cur, folio, folio_field))
    /\ pc' = "TRY_SECONDARY"
    /\ widx' = 1
    /\ invoked' = Append(invoked, second(prefer_mapserver))
    /\ UNCHANGED <<folio, prefer_mapserver, folio_field, db, log, result, seen>>
    /\ UNCHANGED <<qvars, pvars, svars, gvars, xvars>>

\* second() returned None too: the lookup returns None (lines 305, 338, 342)
NotFound ==
    /\ pc = "TRY_SECONDARY"
    /\ widx > Len(wheres(cur, folio, folio_field))
    /\ pc' = "NOT_FOUND"
    /\ result' = None
    /\ seen' = seen \cup {[sit |-> Situation, val |-> None]}
    /\ UNCHANGED <<folio, prefer_mapserver, folio_field, db, widx, invoked, log>>
    /\ UNCHANGED <<qvars, pvars, svars, gvars, xvars>>

\* the caller looks up another folio against the same services (the layer's
\* field metadata is the same: get_layer_fields, lines 237-246)
NewLookup ==
    /\ pc \in {"DONE", "NOT_FOUND"}
    /\ folio' \in FolioInputs
    /\ prefer_mapserver' \in BOOLEAN
    /\ pc' = "START"
    /\ widx' = 1
    /\ invoked' = <<>>
    /\ log' = <<>>
    /\ result' = None
    /\ UNCHANGED <<folio_field, db, seen>>
    /\ UNCHANGED <<qvars, pvars, svars, gvars, xvars>>

LNext == Start \/ QueryStep \/ TrySecondary \/ NotFound \/ NewLookup

InitLookup == LInit /\ QIdle /\ PIdle /\ SIdle /\ GIdle /\ XIdle

SpecLookup == InitLookup /\ [][LNext]_vars

-----------------------------------------------------------------------------
(* Paging loop: get_recent_sales_in_polygon._paged, lines 438-452 *)

\* step (line 438)
step == 2000

\* the values of max_rows the loop runs with (5000 is the default, line 434)
CapChoices == {1, 1999, 2000, 2001, 4000, 5000}

\* the largest number of records an exact service holds
MaxN == 6001

SumN(chunks) ==
    LET RECURSIVE S(_)
        S(i) == IF i = 0 THEN 0 ELSE S(i - 1) + chunks[i].n
    IN S(Len(chunks))

\* len(rows)
RowsLen == SumN(pg_rows)

\* a slip: every page asks for a full step
page_count_full_step(len, cap) == step

\* params["resultRecordCount"] (line 442)
page_count(len, cap) == Min(step, cap - len)

\* a slip: the offset advances by what came back
next_offset_by_received(offset, count, got) == offset + got

\* offset += params["resultRecordCount"] (line 451)
next_offset(offset, count, got) == offset + count

\* What a page request (offset o, count c) can bring back.  A page is the run
\* of records [from, from + n); fail is a None from arcgis_query.
\* The exact service holds records 0 .. N-1 and answers o .. min(o+c, N)-1.
ExactPage(o, c, N) ==
    [fail |-> FALSE, from |-> o, n |-> Max(0, Min(o + c, N) - o)]

\* Any service: a failure, or any run of records, shorter or longer than asked,
\* from the asked offset or again from the start.
AnyPages(o, c) ==
    {[fail |-> TRUE, from |-> 0, n |-> 0]}
    \cup { [fail |-> FALSE, from |-> f, n |-> k] :
             f \in {0, o}, k \in {0, 1, c - 1, c, c + 1, 2 * c} }

Pages(o, c) ==
    IF pg_service = "exact" THEN {ExactPage(o, c, pg_N)} ELSE AnyPages(o, c)

PInitExact ==
    /\ pg_service = "exact"
    /\ pg_N \in 0..MaxN
    /\ pg_cap \in CapChoices
    /\ pg_rows = <<>>
    /\ pg_offset = 0
    /\ pg_reqs = <<>>
    /\ pg_pc = "loop"

PInitAny ==
    /\ pg_service = "any"
    /\ pg_N = 0
    /\ pg_cap \in CapChoices
    /\ pg_rows = <<>>
    /\ pg_offset = 0
    /\ pg_reqs = <<>>
    /\ pg_pc = "loop"

\* one iteration of the while loop (lines 441-451)
PageRequest ==
    /\ pg_pc = "loop"
    /\ RowsLen < pg_cap
    /\ LET count == page_count(RowsLen, pg_cap) IN
       \E page \in Pages(pg_offset, count) :
          /\ pg_reqs' = Append(pg_reqs,
                 [offset |-> pg_offset, count |-> count, before |-> RowsLen,
                  fail |-> page.fail, got |-> page.n])
          /\ IF page.n = 0
             THEN \* if not feats: break
                  /\ pg_pc' = "done"
                  /\ UNCHANGED <<pg_rows, pg_offset>>
             ELSE /\ pg_rows' = Append(pg_rows, [from |-> page.from, n |-> page.n])
                  /\ IF page.n < count
                     THEN \* the short page: break
                          /\ pg_pc' = "done"
                          /\ UNCHANGED pg_offset
                     ELSE /\ pg_offset' = next_offset(pg_offset, count, page.n)
                          /\ UNCHANGED pg_pc
    /\ UNCHANGED <<pg_service, pg_N, pg_cap>>
    /\ UNCHANGED <<qvars, lvars, svars, gvars, xvars>>

\* the loop condition fails: len(rows) >= cap (line 440, then 452)
PageCapReached ==
    /\ pg_pc = "loop"
    /\ RowsLen >= pg_cap
    /\ pg_pc' = "done"
    /\ UNCHANGED <<pg_service, pg_N, pg_cap, pg_rows, pg_offset, pg_reqs>>
    /\ UNCHANGED <<qvars, lvars, svars, gvars, xvars>>

PNext == PageRequest \/ PageCapReached

InitPagedExact == PInitExact /\ QIdle /\ LIdle /\ SIdle /\ GIdle /\ XIdle
InitPagedAny == PInitAny /\ QIdle /\ LIdle /\ SIdle /\ GIdle /\ XIdle

\* the loop against a service that answers every page exactly
SpecPagedExact == InitPagedExact /\ [][PNext]_vars

\* the loop against any service; the call runs to its return (synchronous,
\* single-threaded code: a step that can be taken is taken)
SpecPagedAny == InitPagedAny /\ [][PNext]_vars /\ WF_vars(PNext)

-----------------------------------------------------------------------------
(* Geometry simplifier: _perp, _dp, simplify_rings, lines 139-177; its use  *)
(* by the area queries, lines 409-412 and 454-457                           *)

\* Vertices are points <<x, y>> of an integer grid whose unit is eps_deg
\* (line 164), so that eps is 1 and eps squared is EpsSq.  Distances are kept
\* squared and as fractions num / den, which have the same order as the
\* floating-point distances of the code.
EpsSq == 1

\* the vertices rings are drawn from
Pts == {<<0, 0>>, <<1, 0>>, <<2, 0>>, <<0, 1>>, <<1, 1>>, <<2, 1>>}

\* the longest ring drawn from Pts
MaxRingLen == 4

\* line 410 / 455: sum(len(r) for r in rings) > 1500
VertexThreshold == 1500

DistSq(p, q) == (p[1] - q[1]) * (p[1] - q[1]) + (p[2] - q[2]) * (p[2] - q[2])

\* _perp(p, a, b): the square of the distance returned is num / den;
\* divides tells whether the division of line 143 is executed, by den.
_perp(p, a, b) ==
    IF a = b
    THEN [num |-> DistSq(p, a), den |-> 1, divides |-> FALSE]
    ELSE LET den == DistSq(a, b)
             dot == (p[1] - a[1]) * (b[1] - a[1]) + (p[2] - a[2]) * (b[2] - a[2])
         IN [num |-> IF dot <= 0 THEN DistSq(p, a) * den           \* t = 0.0
                     ELSE IF dot >= den THEN DistSq(p, b) * den    \* t = 1.0
                     ELSE DistSq(p, a) * den - dot * dot,
             den |-> den, divides |-> TRUE]

\* the loop of lines 152-156 (indices are 1-based here): dmax starts at 0.0
\* and is replaced only by a strictly greater distance, so the loop ends with
\* the greatest distance of the inner points and the first index that has it,
\* or with idx = -1 when every inner point is at distance 0.
dp_scan(pts) ==
    LET inner == 2..(Len(pts) - 1)
        d == [i \in inner |-> _perp(pts[i], pts[1], pts[Len(pts)]).num]
        ds == {d[i] : i \in inner} \cup {0}
        dmax == CHOOSE m \in ds : \A k \in ds : k <= m
    IN [num |-> dmax,
        idx |-> IF dmax = 0 THEN -1
                ELSE CHOOSE i \in inner : d[i] = dmax /\ \A j \in 2..(i - 1) : d[j] # dmax]

\* line 157: dmax > eps and idx != -1
dp_splits(pts) ==
    LET far == dp_scan(pts)
        den == _perp(pts[1], pts[1], pts[Len(pts)]).den
    IN far.idx # -1 /\ far.num > EpsSq * den

dp_index(pts) == dp_scan(pts).idx

\* _dp(pts, eps)
RECURSIVE _dp(_)
_dp(pts) ==
    IF Len(pts) <= 2 THEN pts
    ELSE IF dp_splits(pts)
    THEN LET left == _dp(SubSeq(pts, 1, dp_index(pts)))
             right == _dp(SubSeq(pts, dp_index(pts), Len(pts)))
         IN SubSeq(left, 1, Len(left) - 1) \o right
    ELSE <<pts[1], pts[Len(pts)]>>

\* a slip: the closing vertex is not put back
simplify_ring_open(ring) ==
    LET closed == ring[1] = ring[Len(ring)]
        core == IF closed /\ Len(ring) > 1 THEN SubSeq(ring, 1, Len(ring) - 1) ELSE ring
    IN _dp(core)

\* the body of the loop of simplify_rings for a non-empty ring (lines 169-176)
simplify_ring(ring) ==
    LET closed == ring[1] = ring[Len(ring)]
        core == IF closed /\ Len(ring) > 1 THEN SubSeq(ring, 1, Len(ring) - 1) ELSE ring
        simp == _dp(core)
    IN IF closed /\ simp # <<>> /\ simp[1] # simp[Len(simp)]
       THEN Append(simp, simp[1])
       ELSE simp

\* simplify_rings(rings): empty rings are skipped (lines 167-168)
RECURSIVE simplify_rings(_)
simplify_rings(rings) ==
    IF rings = <<>> THEN <<>>
    ELSE (IF Head(rings) = <<>> THEN <<>> ELSE <<simplify_ring(Head(rings))>>)
         \o simplify_rings(Tail(rings))

\* sum(len(r) for r in rings)
RECURSIVE VertexCount(_)
VertexCount(rings) ==
    IF rings = <<>> THEN 0 ELSE Len(Head(rings)) + VertexCount(Tail(rings))

\* lines 410 and 455
needs_simplify(rings) == VertexCount(rings) > VertexThreshold

\* The rings the model draws: every ring of up to MaxRingLen vertices of Pts,
\* alone, after an empty ring, or before a triangle; and boundaries about the
\* threshold long: a closed ring that runs n - 3 times along the edge
\* (1,0) - (2,0) before it turns to (0,1) and closes.
SmallRings == UNION { [1..n -> Pts] : n \in 0..MaxRingLen }

Triangle == <<<<0, 0>>, <<2, 0>>, <<2, 1>>, <<0, 0>>>>

LongRing(n) ==
    [i \in 1..n |->
        IF i = 1 \/ i = n THEN <<0, 0>>
        ELSE IF i = n - 1 THEN <<0, 1>>
        ELSE IF i % 2 = 0 THEN <<1, 0>> ELSE <<2, 0>>]

Polygons ==
    { <<r>> : r \in SmallRings }
    \cup { <<<<>>, r>> : r \in SmallRings }
    \cup { <<r, Triangle>> : r \in SmallRings }
    \cup { <<LongRing(n)>> : n \in {VertexThreshold - 1, VertexThreshold, VertexThreshold + 1} }
    \cup { <<LongRing(VertexThreshold - 4), r>> : r \in {<<>>, Triangle, Triangle \o <<<<0, 0>>>>} }

GInit ==
    /\ g_rings \in Polygons
    /\ g_out = <<>>
    /\ g_called = FALSE
    /\ g_pc = "input"

\* a call of simplify_rings(rings)
GSimplify ==
    /\ g_pc = "input"
    /\ g_out' = simplify_rings(g_rings)
    /\ g_pc' = "simplified"
    /\ UNCHANGED <<g_rings, g_called>>
    /\ UNCHANGED <<qvars, lvars, pvars, svars, xvars>>

\* get_zones_in_polygon / get_recent_sales_in_polygon up to the polygon sent
\* (lines 407-412 and 435, 454-457)
GAreaQuery ==
    /\ g_pc = "input"
    /\ IF g_rings = <<>>
       THEN /\ g_pc' = "empty"
            /\ UNCHANGED <<g_out, g_called>>
       ELSE /\ g_called' = needs_simplify(g_rings)
            /\ g_out' = (IF needs_simplify(g_rings) THEN simplify_rings(g_rings)
                         ELSE g_rings)
            /\ g_pc' = "sent"
    /\ UNCHANGED g_rings
    /\ UNCHANGED <<qvars, lvars, pvars, svars, xvars>>

GNext == GSimplify \/ GAreaQuery

InitGeom == GInit /\ QIdle /\ LIdle /\ PIdle /\ SIdle /\ XIdle

SpecGeom == InitGeom /\ [][GNext]_vars

-----------------------------------------------------------------------------
(* Date window: get_recent_sales_in_polygon after the paging, lines 472-502 *)

\* Time is counted in days; day 0 is the epoch, sales fall on days 1..MaxDay
\* and the call is made on day MaxDay.
MaxDay == 3
MaxSales == 3
MaxWindow == 2

Today == MaxDay

\* The value of the date field of a record as the service delivers it:
\* an epoch-millisecond integer, a text date, a text that is no date, null,
\* or no date field at all.
SaleDates ==
    { [k |-> "ms", day |-> d] : d \in 1..MaxDay }
    \cup { [k |-> "text", day |-> d] : d \in 1..MaxDay }
    \cup { [k |-> "bad", day |-> 0], [k |-> "null", day |-> 0] }

NoDateField == [k |-> "absent", day |-> 0]

SaleInputs ==
    UNION { [1..n -> SaleDates] : n \in 0..MaxSales }
    \cup { [i \in 1..n |-> NoDateField] : n \in 1..MaxSales }

\* line 479: one of candidate_cols is a column of the frame
has_date_col(attrs) == \E i \in 1..Len(attrs) : attrs[i].k # "absent"

\* pd.api.types.is_numeric_dtype(s) (line 482): the column holds numbers,
\* and nulls only beside numbers
is_numeric_dtype(attrs) ==
    /\ \A i \in 1..Len(attrs) : attrs[i].k \in {"ms", "null"}
    /\ \E i \in 1..Len(attrs) : attrs[i].k = "ms"

NaT == [nat |-> TRUE, day |-> 0]
At(d) == [nat |-> FALSE, day |-> d]

\* pd.to_datetime(s, unit="ms", utc=True, errors="coerce") (line 483)
to_datetime_ms(v) == IF v.k = "ms" THEN {At(v.day)} ELSE {NaT}

\* pd.to_datetime(s, utc=True, errors="coerce") on a column of objects
\* (line 485): a text date is parsed; an integer is not read as milliseconds:
\* it is taken as nanoseconds since the epoch (a moment of day 0) or, when a
\* format was inferred from a text date, coerced to NaT.
to_datetime_object(v) ==
    IF v.k = "text" THEN {At(v.day)}
    ELSE IF v.k = "ms" THEN {At(0), NaT}
    ELSE {NaT}

\* lines 481-485: the parsed columns the frame can end with
parsed_columns(attrs) ==
    { col \in [1..Len(attrs) -> {At(d) : d \in 0..MaxDay} \cup {NaT}] :
        \A i \in 1..Len(attrs) :
           col[i] \in (IF is_numeric_dtype(attrs) THEN to_datetime_ms(attrs[i])
                       ELSE to_datetime_object(attrs[i])) }

\* pd.Timestamp.utcnow() (line 486) is timezone-aware
utcnow_tz == "UTC"

\* Timestamp.tz_localize("UTC") (line 486) raises TypeError on a
\* timezone-aware Timestamp
tz_localize_raises(tz) == tz # "naive"

\* lines 487 and 500: the rows with date >= cutoff (NaT compares false),
\* by date descending
window_rows(col, cutoff) ==
    LET keep == {i \in 1..Len(col) : ~col[i].nat /\ col[i].day >= cutoff} IN
    { rows \in Orderings(keep) :
        \A i, j \in 1..Len(rows) : i < j => col[rows[i]].day >= col[rows[j]].day }

\* the rows of the frame in the order collected
all_rows(attrs) == [i \in 1..Len(attrs) |-> i]

SInit ==
    /\ s_attrs \in SaleInputs
    /\ s_days \in 1..MaxWindow
    /\ s_out = None
    /\ s_pc = "call"

\* get_recent_sales_in_polygon from line 472 to its return
SalesCall ==
    /\ s_pc = "call"
    /\ s_pc' = "done"
    /\ IF s_attrs = <<>>
       THEN \* lines 473-474
            s_out' = [raised |-> FALSE, rows |-> <<>>]
       ELSE IF ~has_date_col(s_attrs)
       THEN \* date_col is None: no filter, no sort (lines 480, 494)
            s_out' = [raised |-> FALSE, rows |-> all_rows(s_attrs)]
       ELSE \E col \in parsed_columns(s_attrs) :
               IF tz_localize_raises(utcnow_tz)
               THEN \* line 486 raises; nothing catches it
                    s_out' = [raised |-> TRUE, rows |-> <<>>]
               ELSE \E rows \in window_rows(col, Today - s_days) :
                       s_out' = [raised |-> FALSE, rows |-> rows]
    /\ UNCHANGED <<s_attrs, s_days>>
    /\ UNCHANGED <<qvars, lvars, pvars, gvars, xvars>>

SNext == SalesCall

InitSales == SInit /\ QIdle /\ LIdle /\ PIdle /\ GIdle /\ XIdle

SpecSales == InitSales /\ [][SNext]_vars

-----------------------------------------------------------------------------
(* Folio formatter: format_md_folio, lines 89-96 *)

\* a str argument
Text(s) == [text |-> s]

\* (input_str or "").strip()
stripped_input(input_str) ==
    Strip(IF input_str = None THEN <<>> ELSE input_str.text)

\* lines 91-96: the pair (hyphenated, digits), or (s, digits)
format_md_folio(input_str) ==
    LET s == stripped_input(input_str)
        d == DigitsOf(s)
    IN  IF Len(d) = FolioDigits
        THEN [hyph |-> Hyphenate(d), digits |-> d]
        ELSE [hyph |-> s, digits |-> d]

Sup13 == [i \in 1..FolioDigits |-> "sup2"]

\* what is typed around and between the digits
FolioAffixes == { <<>>, <<" ">>, <<"\t">>, <<"a">>, <<"-">>, <<"7">> }

FolioBodies ==
    { <<>>, D13, Hyphenate(D13), SubSeq(D13, 1, 12), <<"1", " ", "2">>,
      <<"O", "'", "B">>, Sup13, SubSeq(D13, 1, 12) \o <<"sup2">> }

FormatInputs ==
    {None} \cup { Text(a \o b \o c) : a \in FolioAffixes, b \in FolioBodies,
                                       c \in FolioAffixes }

FInit == f_in = None /\ f_out = None /\ f_pc = "call"

\* one call of format_md_folio
FormatCall ==
    /\ f_pc = "call"
    /\ \E x \in FormatInputs :
          /\ f_in' = x
          /\ f_out' = format_md_folio(x)
    /\ f_pc' = "returned"
    /\ UNCHANGED not_f

\* the next call
FormatAgain ==
    /\ f_pc = "returned"
    /\ f_in' = None /\ f_out' = None /\ f_pc' = "call"
    /\ UNCHANGED not_f

FNext == FormatCall \/ FormatAgain

InitFormat == FInit /\ CoreIdle /\ NIdle /\ BIdle /\ CIdle /\ HIdle

SpecFormat == InitFormat /\ [][FNext]_vars

-----------------------------------------------------------------------------
(* Bulk text parser: normalize_folios, lines 183-202 *)

MaxTokens == 3

\* the characters lines 188-192 replace by a space
Separators == {"\r", "\n", ",", ";", "\t"}

\* lines 187-193
replace_separators(text) ==
    [i \in 1..Len(text) |-> IF text[i] \in Separators THEN " " ELSE text[i]]

\* re.findall(r"\d{13}", t) from position i on: the leftmost runs of 13
\* decimal digits, not overlapping
RECURSIVE findall_d13(_, _)
findall_d13(t, i) ==
    IF i + FolioDigits - 1 > Len(t) THEN <<>>
    ELSE IF \A j \in i..(i + FolioDigits - 1) : t[j] \in DigitChars
         THEN <<SubSeq(t, i, i + FolioDigits - 1)>>
                  \o findall_d13(t, i + FolioDigits)
         ELSE findall_d13(t, i + 1)

\* lines 195-201: the loop over digits_list with out and seen
RECURSIVE dedupe(_, _, _)
dedupe(ds, out, sn) ==
    IF ds = <<>> THEN out
    ELSE IF Head(ds) \notin sn
         THEN dedupe(Tail(ds), Append(out, Hyphenate(Head(ds))),
                     sn \cup {Head(ds)})
         ELSE dedupe(Tail(ds), out, sn)

normalize_folios(text) ==
    IF text = <<>> THEN <<>>
    ELSE dedupe(findall_d13(replace_separators(text), 1), <<>>, {})

E13 == <<"0", "1", "3", "1", "2", "3", "4", "5", "6", "7", "8", "9", "0">>

\* what is pasted: folios in both forms, a run of 14 digits, a short number
PastedTokens ==
    { D13, E13, Hyphenate(D13), D13 \o <<"9">>, <<"1", "2">> }

PastedSeparators == { <<",">>, <<";">>, <<"\n">>, <<"\t">>, <<",", " ">> }

RECURSIVE PastedTexts(_)
PastedTexts(n) ==
    IF n = 1 THEN PastedTokens
    ELSE PastedTokens \cup
         { t \o sp \o k : t \in PastedTexts(n - 1), sp \in PastedSeparators,
                          k \in PastedTokens }

\* sep.join(out)
RECURSIVE Join(_, _)
Join(out, sp) ==
    IF out = <<>> THEN <<>>
    ELSE IF Len(out) = 1 THEN out[1]
    ELSE out[1] \o sp \o Join(Tail(out), sp)

NInit ==
    /\ n_text \in PastedTexts(MaxTokens)
    /\ n_out = <<>> /\ n_sep = <<>> /\ n_again = <<>>
    /\ n_pc = "call"

\* normalize_folios(text)
Parse ==
    /\ n_pc = "call"
    /\ n_out' = normalize_folios(n_text)
    /\ n_pc' = "parsed"
    /\ UNCHANGED <<n_text, n_sep, n_again>>
    /\ UNCHANGED not_n

\* normalize_folios(sep.join(out)) for one of the accepted separators
Reparse ==
    /\ n_pc = "parsed"
    /\ \E sp \in {<<",">>, <<";">>, <<"\n">>, <<"\t">>} :
          /\ n_sep' = sp
          /\ n_again' = normalize_folios(Join(n_out, sp))
    /\ n_pc' = "reparsed"
    /\ UNCHANGED <<n_text, n_out>>
    /\ UNCHANGED not_n

NNext == Parse \/ Reparse

InitParse == NInit /\ CoreIdle /\ FIdle /\ BIdle /\ CIdle /\ HIdle

SpecParse == InitParse /\ [][NNext]_vars

-----------------------------------------------------------------------------
(* Bulk resolver: tab_bulk lines 717-737, bulk_properties_by_folios 344-388 *)

MaxBulk == 3
MaxFaults == 1

N14 == <<"9">> \o D13

\* a feature that is JSON null: feats[0].get raises on it
NullFeature == <<"null">>

\* the cells of the uploaded 'folio' column
UploadCells == { D13, <<" ">> \o D13, N14, <<"1", "2">>, <<>> }

RECURSIVE Lists(_, _)
Lists(S, n) ==
    IF n = 0 THEN {<<>>}
    ELSE Lists(S, n - 1) \cup
         { Append(l, x) : l \in {k \in Lists(S, n - 1) : Len(k) = n - 1}, x \in S }

\* the records each source holds, in table order
BulkTables ==
    { [m \in Sources |-> IF m = MapServer THEN t ELSE u] :
        t \in { <<>>, <<D13>>, <<N14>> }, u \in { <<>>, <<Hyphenate(D13)>> } }

\* the where-clauses a run can send to a source
BulkWheres(m) ==
    UNION { { wheres(m, f, "folio")[i] : i \in 1..Len(wheres(m, f, "folio")) } :
              f \in {D13, N14, <<"1", "2">>} }

\* what goes wrong during a run: a query whose exchange fails, or whose
\* answer holds a null feature
BulkFaults ==
    UNION { { [src |-> m, w |-> w, kind |-> k] :
                w \in BulkWheres(m), k \in {"fail", "null"} } : m \in Sources }

RECURSIVE SubsetsUpTo(_, _)
SubsetsUpTo(S, n) ==
    IF n = 0 THEN {{}}
    ELSE SubsetsUpTo(S, n - 1) \cup
         { T \cup {x} : T \in SubsetsUpTo(S, n - 1), x \in S }

\* the HTTP exchange of a where-query against a source during the run
bulk_exchange(src, w, env) ==
    IF \E f \in env.fault : f.src = src /\ f.w = w /\ f.kind = "fail"
    THEN Exchange("timeout", 0, NotJson)
    ELSE IF \E f \in env.fault : f.src = src /\ f.w = w /\ f.kind = "null"
    THEN Exchange("ok", 200, DictBody([k |-> "absent"], <<NullFeature>>))
    ELSE Exchange("ok", 200,
                  DictBody([k |-> "absent"],
                           SelectSeq(env.table[src], LAMBDA r : Matches(w, r))))

\* the loop of _query_mapserver70 / _query_featureserver0 from candidate i on
\* (lines 276-305 and 330-338); failed records whether a query failed
RECURSIVE query_source(_, _, _, _, _)
query_source(src, ws, i, env, failed) ==
    IF i > Len(ws) THEN [res |-> None, raised |-> FALSE, failed |-> failed]
    ELSE LET data == arcgis_query(bulk_exchange(src, ws[i], env)).ret
             feats == FeaturesOf(data)
         IN  IF feats # <<>>
             THEN IF feats[1] = NullFeature
                  THEN \* feats[0].get(...): AttributeError
                       [res |-> None, raised |-> TRUE, failed |-> failed]
                  ELSE [res |-> record(src, ws[i], feats), raised |-> FALSE,
                        failed |-> failed]
             ELSE query_source(src, ws, i + 1, env, failed \/ data = None)

\* get_property_by_folio as a function of its arguments and of the services
get_property_by_folio(fol, p, env) ==
    IF fol = <<>> THEN [res |-> None, raised |-> FALSE, failed |-> FALSE]
    ELSE LET a == query_source(first(p), wheres(first(p), fol, "folio"), 1,
                               env, FALSE)
         IN  IF a.raised \/ a.res # None THEN a
             ELSE query_source(second(p), wheres(second(p), fol, "folio"), 1,
                               env, a.failed)

\* list(dict.fromkeys(l))
RECURSIVE fromkeys(_, _)
fromkeys(l, acc) ==
    IF l = <<>> THEN acc
    ELSE fromkeys(Tail(l),
                  IF \E i \in 1..Len(acc) : acc[i] = Head(l) THEN acc
                  ELSE Append(acc, Head(l)))

\* h or d (line 727), hyph or digits or str(fol) (line 349)
folio_key(v) ==
    LET r == format_md_folio(Text(v)) IN
    IF r.hyph # <<>> THEN r.hyph ELSE IF r.digits # <<>> THEN r.digits ELSE v

\* lines 720-733: input_folios from the uploaded column
input_folios(cells) ==
    fromkeys(SelectSeq([i \in 1..Len(cells) |-> folio_key(cells[i])],
                       LAMBDA f : f # <<>>), <<>>)

\* df.drop_duplicates(subset=["Folio"], keep="first")
drop_duplicates(rows) ==
    LET keep == { i \in 1..Len(rows) :
                    \A j \in 1..(i - 1) : rows[j].Folio # rows[i].Folio }
        RECURSIVE Pick(_)
        Pick(i) == IF i > Len(rows) THEN <<>>
                   ELSE (IF i \in keep THEN <<rows[i]>> ELSE <<>>) \o Pick(i + 1)
    IN  Pick(1)

\* lines 350-384: the row of one folio; idx is its index in the frame
bulk_row(key, r, idx) ==
    IF r.raised THEN [Folio |-> key, Status |-> "ERROR", idx |-> idx]
    ELSE IF r.res # None
    THEN [Folio |-> IF r.res.attributes.folio # <<>>
                    THEN r.res.attributes.folio ELSE key,
          Status |-> "OK", idx |-> idx]
    ELSE [Folio |-> key, Status |-> "NOT FOUND", idx |-> idx]

BInit ==
    /\ b_upload \in Lists(UploadCells, MaxBulk) \ {<<>>}
    /\ b_prefer \in BOOLEAN
    /\ b_env \in [table : BulkTables, fault : SubsetsUpTo(BulkFaults, MaxFaults)]
    /\ b_list = <<>> /\ b_i = 0 /\ b_rows = <<>> /\ b_calls = <<>>
    /\ b_out = <<>>
    /\ b_pc = "input"

\* lines 720-735: the folios detected; the button shows when there are some
BulkInput ==
    /\ b_pc = "input"
    /\ b_list' = input_folios(b_upload)
    /\ b_i' = 1
    /\ b_pc' = IF input_folios(b_upload) # <<>> THEN "loop" ELSE "done"
    /\ UNCHANGED <<b_upload, b_prefer, b_env, b_rows, b_calls, b_out>>
    /\ UNCHANGED not_b

\* one iteration of the loop of lines 347-385
BulkStep ==
    /\ b_pc = "loop"
    /\ b_i <= Len(b_list)
    /\ LET key == folio_key(b_list[b_i])
           r == get_property_by_folio(key, b_prefer, b_env)
       IN  /\ b_calls' = Append(b_calls, [key |-> key, failed |-> r.failed,
                                          raised |-> r.raised])
           /\ b_rows' = Append(b_rows, bulk_row(key, r, b_i))
    /\ b_i' = b_i + 1
    /\ UNCHANGED <<b_upload, b_prefer, b_env, b_list, b_out, b_pc>>
    /\ UNCHANGED not_b

\* lines 385-388: the frame returned
BulkReturn ==
    /\ b_pc = "loop"
    /\ b_i > Len(b_list)
    /\ b_out' = drop_duplicates(b_rows)
    /\ b_pc' = "done"
    /\ UNCHANGED <<b_upload, b_prefer, b_env, b_list, b_i, b_rows, b_calls>>
    /\ UNCHANGED not_b

BNext == BulkInput \/ BulkStep \/ BulkReturn

InitBulk == BInit /\ CoreIdle /\ FIdle /\ NIdle /\ CIdle /\ HIdle

SpecBulk == InitBulk /\ [][BNext]_vars

-----------------------------------------------------------------------------
(* Memo caches: @st.cache_data(ttl=60*60) on arcgis_query (line 102) and   *)
(* on get_property_by_folio (line 248)                                     *)

\* ttl=60*60
ttl == 3600

\* how many half time-to-lives the clock runs
MaxTicks == 3

\* the folio looked up: one where-candidate for each source
CachedFolios == { <<"1", "2">> }

\* the argument sets of get_property_by_folio
ResolverKeys == [folio : CachedFolios, prefer : BOOLEAN]

\* the argument sets of arcgis_query the lookups produce
QueryKeys ==
    UNION { { [src |-> m, w |-> wheres(m, f, "folio")[i]] :
                i \in 1..Len(wheres(m, f, "folio")) } :
              m \in Sources, f \in CachedFolios }

\* a slip: an entry is served however old it is
Live_for_ever(cache, k, now) == cache[k] # None

\* an entry is served while its time-to-live has not elapsed
Live(cache, k, now) ==
    cache[k] # None /\ now < cache[k].written + ttl

\* a slip: a None result is not kept
store_unless_none(cache, k, v, now) ==
    IF v = None THEN cache ELSE [cache EXCEPT ![k] = [val |-> v, written |-> now]]

\* the entry written after the function ran
store(cache, k, v, now) == [cache EXCEPT ![k] = [val |-> v, written |-> now]]

\* the HTTP exchange of a where-query at this moment
cached_exchange(src, w, up, table) ==
    IF ~up THEN Exchange("timeout", 0, NotJson)
    ELSE Exchange("ok", 200,
                  DictBody([k |-> "absent"],
                           SelectSeq(table[src], LAMBDA r : Matches(w, r))))

\* arcgis_query through its cache: the value, the cache afterwards and the
\* number of remote requests issued
cached_query(src, w, qc, now, up, table) ==
    LET k == [src |-> src, w |-> w] IN
    IF Live(qc, k, now) THEN [ret |-> qc[k].val, qc |-> qc, remote |-> 0]
    ELSE LET r == arcgis_query(cached_exchange(src, w, up, table)).ret
         IN  [ret |-> r, qc |-> store(qc, k, r, now), remote |-> 1]

\* the loop of a source's query function, its queries going through the
\* cache of arcgis_query
RECURSIVE cached_source(_, _, _, _, _, _, _, _)
cached_source(src, ws, i, qc, n, now, up, table) ==
    IF i > Len(ws) THEN [res |-> None, qc |-> qc, remote |-> n]
    ELSE LET c == cached_query(src, ws[i], qc, now, up, table)
             feats == FeaturesOf(c.ret)
         IN  IF feats # <<>>
             THEN [res |-> record(src, ws[i], feats), qc |-> c.qc,
                   remote |-> n + c.remote]
             ELSE cached_source(src, ws, i + 1, c.qc, n + c.remote, now, up,
                                table)

\* the body of get_property_by_folio (lines 250-342)
resolver_body(fol, p, qc, now, up, table) ==
    LET a == cached_source(first(p), wheres(first(p), fol, "folio"), 1, qc, 0,
                           now, up, table)
    IN  IF a.res # None THEN a
        ELSE cached_source(second(p), wheres(second(p), fol, "folio"), 1,
                           a.qc, a.remote, now, up, table)

CacheTables ==
    { [m \in Sources |-> IF m = MapServer THEN t ELSE <<>>] :
        t \in { <<>>, <<<<"1", "2">>>> } }

CInit ==
    /\ c_now = 0
    /\ c_up \in BOOLEAN
    /\ c_table \in CacheTables
    /\ c_qcache = [k \in QueryKeys |-> None]
    /\ c_rcache = [k \in ResolverKeys |-> None]
    /\ c_last = None

\* a call of arcgis_query
CallQuery ==
    /\ \E k \in QueryKeys :
          LET c == cached_query(k.src, k.w, c_qcache, c_now, c_up, c_table) IN
          /\ c_qcache' = c.qc
          /\ c_last' = [fn |-> "arcgis_query", key |-> k,
                        before |-> c_qcache[k], at |-> c_now,
                        ret |-> c.ret, remote |-> c.remote]
    /\ UNCHANGED <<c_now, c_up, c_table, c_rcache>>
    /\ UNCHANGED not_c

\* a call of get_property_by_folio
CallResolver ==
    /\ \E k \in ResolverKeys :
          IF Live(c_rcache, k, c_now)
          THEN /\ c_last' = [fn |-> "get_property_by_folio", key |-> k,
                             before |-> c_rcache[k], at |-> c_now,
                             ret |-> c_rcache[k].val, remote |-> 0]
               /\ UNCHANGED <<c_qcache, c_rcache>>
          ELSE LET b == resolver_body(k.folio, k.prefer, c_qcache, c_now,
                                      c_up, c_table)
               IN  /\ c_qcache' = b.qc
                   /\ c_rcache' = store(c_rcache, k, b.res, c_now)
                   /\ c_last' = [fn |-> "get_property_by_folio", key |-> k,
                                 before |-> c_rcache[k], at |-> c_now,
                                 ret |-> b.res, remote |-> b.remote]
    /\ UNCHANGED <<c_now, c_up, c_table>>
    /\ UNCHANGED not_c

\* time passes
Tick ==
    /\ c_now < MaxTicks * (ttl \div 2)
    /\ c_now' = c_now + (ttl \div 2)
    /\ UNCHANGED <<c_up, c_table, c_qcache, c_rcache, c_last>>
    /\ UNCHANGED not_c

\* the remote services go down or come back
ServiceChange ==
    /\ c_up' = ~c_up
    /\ UNCHANGED <<c_now, c_table, c_qcache, c_rcache, c_last>>
    /\ UNCHANGED not_c

CNext == CallQuery \/ CallResolver \/ Tick \/ ServiceChange

InitCache == CInit /\ CoreIdle /\ FIdle /\ NIdle /\ BIdle /\ HIdle

SpecCache == InitCache /\ [][CNext]_vars

-----------------------------------------------------------------------------
(* HTTP session: get_http, lines 60-81 (urllib3 Retry on an HTTPAdapter)   *)

\* Retry(total=4, read=4, connect=4, backoff_factor=0.4, ...)
retry_total == 4
retry_read == 4
retry_connect == 4
\* backoff_factor=0.4, in tenths of a second
backoff_factor == 4

\* status_forcelist=(429, 500, 502, 503, 504)
status_forcelist == {429, 500, 502, 503, 504}

\* allowed_methods=frozenset(["GET", "POST"])
allowed_methods == {"GET", "POST"}

\* Retry.RETRY_AFTER_STATUS_CODES: retried when the response carries a
\* Retry-After header (respect_retry_after_header is left at its default)
retry_after_status_codes == {413, 429, 503}

\* how an attempt can end: no connection, a broken read, or a response with
\* a status and possibly a Retry-After header
AttemptOutcomes ==
    { [k |-> "connect_error"], [k |-> "read_error"] }
    \cup { [k |-> "status", status |-> c, retry_after |-> FALSE] :
             c \in {200, 400, 404, 413, 429, 500, 502, 503, 504} }
    \cup { [k |-> "status", status |-> c, retry_after |-> TRUE] :
             c \in {413, 429, 503} }

\* Retry._is_method_retryable
is_method_retryable(method) == method \in allowed_methods

\* a slip: every error status is retried
is_retry_any_error(method, o) ==
    /\ o.k = "status"
    /\ is_method_retryable(method)
    /\ o.status >= 400

\* Retry.is_retry(method, status_code, has_retry_after)
is_retry(method, o) ==
    /\ o.k = "status"
    /\ is_method_retryable(method)
    /\ \/ o.status \in status_forcelist
       \/ (o.retry_after /\ o.status \in retry_after_status_codes)

\* whether the session tries again after an attempt that ended with o,
\* before the counters are looked at
retryable(method, o) ==
    \/ o.k = "connect_error"
    \/ o.k = "read_error" /\ is_method_retryable(method)
    \/ is_retry(method, o)

Pow2(n) == IF n <= 0 THEN 1 ELSE 2 ^ n

\* Retry.get_backoff_time after n consecutive failed attempts
get_backoff_time(n) ==
    IF n <= 1 THEN 0 ELSE Min(1200, backoff_factor * Pow2(n - 1))

\* Retry.sleep: the Retry-After of the response, or the backoff
sleep_time(o, n) ==
    IF o.k = "status" /\ o.retry_after THEN [k |-> "retry_after"]
    ELSE [k |-> "backoff", tenths |-> get_backoff_time(n)]

HInit ==
    /\ h_method \in {"GET", "POST"}
    /\ h_total = retry_total /\ h_connect = retry_connect /\ h_read = retry_read
    /\ h_attempts = <<>> /\ h_sleeps = <<>> /\ h_result = "none"
    /\ h_pc = "send"

\* one attempt of the request ends, and the session returns, raises or
\* waits and tries again (Retry.increment, Retry.is_exhausted, Retry.sleep)
Attempt ==
    /\ h_pc = "send"
    /\ \E o \in AttemptOutcomes :
          LET t == h_total - 1
              c == IF o.k = "connect_error" THEN h_connect - 1 ELSE h_connect
              r == IF o.k = "read_error" THEN h_read - 1 ELSE h_read
              exhausted == t < 0 \/ c < 0 \/ r < 0
          IN  /\ h_attempts' = Append(h_attempts, o)
              /\ IF ~retryable(h_method, o)
                 THEN /\ h_result' = IF o.k = "status" THEN "response" ELSE "raised"
                      /\ h_pc' = "done"
                      /\ UNCHANGED <<h_total, h_connect, h_read, h_sleeps>>
                 ELSE IF exhausted
                 THEN /\ h_result' = "raised"
                      /\ h_pc' = "done"
                      /\ UNCHANGED <<h_total, h_connect, h_read, h_sleeps>>
                 ELSE /\ h_total' = t /\ h_connect' = c /\ h_read' = r
                      /\ h_sleeps' = Append(h_sleeps,
                                            sleep_time(o, Len(h_attempts) + 1))
                      /\ UNCHANGED <<h_result, h_pc>>
    /\ UNCHANGED h_method
    /\ UNCHANGED not_h

\* the next request
NextRequest ==
    /\ h_pc = "done"
    /\ h_method' \in {"GET", "POST"}
    /\ h_total' = retry_total /\ h_connect' = retry_connect /\ h_read' = retry_read
    /\ h_attempts' = <<>> /\ h_sleeps' = <<>> /\ h_result' = "none"
    /\ h_pc' = "send"
    /\ UNCHANGED not_h

HNext == Attempt \/ NextRequest

InitHttp == HInit /\ CoreIdle /\ FIdle /\ NIdle /\ BIdle /\ CIdle

SpecHttp == InitHttp /\ [][HNext]_vars

-----------------------------------------------------------------------------
(* Claims about the remote query client *)

\* The failures C4 lists, read off the exchange: timeout, connection error,
\* a status outside 2xx, a body that is not JSON, a JSON object whose "error"
\* member is set (holds a non-empty value of any shape).
C4_ErrorMemberSet(x) ==
    x.body.t = "dict" /\ x.body.error.k \notin {"absent", "null", "empty"}

C4_Failure(x) ==
    \/ x.net \in {"timeout", "connection_error"}
    \/ x.status \notin 200..299
    \/ x.body.t = "notjson"
    \/ C4_ErrorMemberSet(x)

-----------------------------------------------------------------------------
(* Claims about the property resolver *)

C_Primary == IF prefer_mapserver THEN MapServer ELSE FeatureServer
C_Secondary == IF prefer_mapserver THEN FeatureServer ELSE MapServer

\* the queries this lookup sent to a source, in order
C_LogOf(src) == SelectSeq(log, LAMBDA e : e.src = src)

\* every query sent to the source came back without a feature
C_NoMatch(src) == \A i \in 1..Len(log) : log[i].src = src => log[i].feats = <<>>

\* the number of where-candidates of the folio: the hyphenated (or raw) text
\* when there is one, and two more for a 13-digit folio
C_Candidates ==
    (IF Strip(folio) # <<>> THEN 1 ELSE 0)
    + (IF Len(DigitsOf(folio)) = 13 THEN 2 ELSE 0)

C1_Transitions ==
    { <<"START", "TRY_PRIMARY">>, <<"TRY_PRIMARY", "DONE">>,
      <<"TRY_PRIMARY", "TRY_SECONDARY">>, <<"TRY_SECONDARY", "DONE">>,
      <<"TRY_SECONDARY", "NOT_FOUND">>,
      <<"DONE", "START">>, <<"NOT_FOUND", "START">> }

C1_State ==
    \* the source selected by prefer_mapserver is invoked first, then the other
    /\ invoked \in {<<>>, <<C_Primary>>, <<C_Primary, C_Secondary>>}
    /\ pc = "TRY_PRIMARY" => invoked = <<C_Primary>>
    /\ pc = "TRY_SECONDARY" => invoked = <<C_Primary, C_Secondary>>
    \* no query goes to a source that was not invoked, and none goes to the
    \* primary once the secondary is being tried
    /\ \A i \in 1..Len(log) :
          /\ \E k \in 1..Len(invoked) : invoked[k] = log[i].src
          /\ \A j \in 1..Len(log) :
                (i < j /\ log[i].src = C_Secondary) => log[j].src = C_Secondary
    \* the secondary is tried only after the primary yielded no match from
    \* any of its candidates
    /\ Len(invoked) = 2 =>
          /\ C_NoMatch(C_Primary)
          /\ Len(C_LogOf(C_Primary)) = C_Candidates
    \* ... and always then
    /\ (pc \in {"DONE", "NOT_FOUND"} /\ C_NoMatch(C_Primary)) => Len(invoked) = 2
    \* outcomes
    /\ pc = "DONE" =>
          /\ log # <<>>
          /\ log[Len(log)].feats # <<>>
          /\ result.source = log[Len(log)].src
          /\ result.attributes.folio = log[Len(log)].feats[1]
          /\ ~C_NoMatch(C_Primary) => result.source = C_Primary
          /\ C_NoMatch(C_Primary) => result.source = C_Secondary
    /\ pc = "NOT_FOUND" =>
          /\ result = None
          /\ C_NoMatch(C_Primary) /\ C_NoMatch(C_Secondary)

\* C1: the lookup follows START -> TRY_PRIMARY -> (DONE | TRY_SECONDARY ->
\* (DONE | NOT_FOUND)); the source selected by prefer_mapserver is queried
\* first; the other source is queried if and only if the first yielded no match
\* (every candidate returned zero features or failed); the record returned
\* after the first source found nothing is the second source's and names it.
C1_LookupStateMachine ==
    /\ [](C1_State)
    /\ [][pc' # pc => <<pc, pc'>> \in C1_Transitions]_vars

\* C1 witness: every query to the primary failed, the secondary answered, and
\* the lookup is done with the secondary's record.
C1_Witness ==
    /\ pc = "DONE"
    /\ C_LogOf(C_Primary) # <<>>
    /\ \A i \in 1..Len(log) : log[i].src = C_Primary => log[i].failed
    /\ result.source = C_Secondary

\* the candidates of the claim's order: exact hyphenated, exact 13-digit, LIKE
C2_Order ==
    LET d == DigitsOf(folio)
        h == IF Len(d) = 13 THEN Hyphenate(d) ELSE IF d # <<>> THEN d ELSE Strip(folio)
    IN (IF h # <<>> THEN <<[op |-> "=", val |-> h]>> ELSE <<>>)
       \o (IF Len(d) = 13
           THEN <<[op |-> "=", val |-> d], [op |-> "LIKE", val |-> d]>>
           ELSE <<>>)

\* the source's answer to the exact hyphenated query, the first candidate, was
\* not a failure
C2_ExactAnswered(src) ==
    /\ C_LogOf(src) # <<>>
    /\ ~C_LogOf(src)[1].failed

C2_HoldsBoth(src) ==
    /\ Len(DigitsOf(folio)) = 13
    /\ Hyphenate(DigitsOf(folio)) \in db[src]
    /\ \E r \in db[src] :
          /\ r # Hyphenate(DigitsOf(folio))
          /\ r # DigitsOf(folio)
          /\ IsSubstring(DigitsOf(folio), r)

\* C2, first sentence: within each source the candidates are tried in the
\* order exact hyphenated, exact 13-digit, LIKE; the loop stops at the first
\* candidate that returns a non-empty feature list and that clause is
\* where_used.
C2_InOrder ==
    /\ \A src \in Sources :
          LET l == C_LogOf(src) IN
          /\ Len(l) <= Len(C2_Order)
          /\ \A i \in 1..Len(l) :
                /\ l[i].w.op = C2_Order[i].op
                /\ l[i].w.lit = esc(C2_Order[i].val)
                /\ l[i].w.field = (IF src = MapServer THEN "FOLIO" ELSE folio_field)
    /\ \A i \in 1..Len(log) :
          log[i].feats # <<>> => (i = Len(log) /\ pc = "DONE")
    /\ pc = "DONE" =>
          /\ result.where_used = log[Len(log)].w
          /\ result.attributes.folio = log[Len(log)].feats[1]

C3_Distinguishable ==
    \A a, b \in seen : a.sit # b.sit => a.val # b.val

-----------------------------------------------------------------------------
(* Claims about the paging loop *)

C_CeilDiv(a, b) == (a + b - 1) \div b

\* the records collected are exactly 0 .. k-1, in order
C5_CollectedExactly(k) ==
    /\ RowsLen = k
    /\ \A i \in 1..Len(pg_rows) :
          pg_rows[i].from = SumN(SubSeq(pg_rows, 1, i - 1))

\* C5 as stated: against the exact service the loop collects exactly
\* min(N, cap) records and issues exactly ceil(min(N, cap) / P) page requests,
\* for every N >= 0.
C5_Original ==
    pg_pc = "done" =>
        /\ C5_CollectedExactly(Min(pg_N, pg_cap))
        /\ Len(pg_reqs) = C_CeilDiv(Min(pg_N, pg_cap), 2000)

\* C5 as amended: the loop collects exactly min(N, cap) records; it issues
\* ceil(cap / P) requests when N >= cap, and N div P + 1 requests when N < cap:
\* that is ceil(N / P) when N is not a multiple of P, and one more request, which
\* comes back empty, when N is a multiple of P (N = 0 included).
C5_PagedExact ==
    pg_pc = "done" =>
        /\ C5_CollectedExactly(Min(pg_N, pg_cap))
        /\ Len(pg_reqs) = (IF pg_N >= pg_cap
                           THEN C_CeilDiv(pg_cap, 2000)
                           ELSE (pg_N \div 2000) + 1)
        /\ (pg_N < pg_cap /\ pg_N % 2000 # 0)
              => Len(pg_reqs) = C_CeilDiv(Min(pg_N, pg_cap), 2000)
        /\ (pg_N < pg_cap /\ pg_N % 2000 = 0)
              => /\ Len(pg_reqs) = C_CeilDiv(Min(pg_N, pg_cap), 2000) + 1
                 /\ pg_reqs[Len(pg_reqs)].got = 0

\* C5 witness: 4000 records under a cap of 5000 were collected with three
\* requests, the third one empty.
C5_Witness ==
    /\ pg_pc = "done" /\ pg_N = 4000 /\ pg_cap = 5000
    /\ RowsLen = 4000 /\ Len(pg_reqs) = 3

C6_State ==
    \* each request's resultOffset is the sum of the counts requested before
    /\ \A i \in 1..Len(pg_reqs) :
          /\ pg_reqs[i].offset = (LET RECURSIVE S(_)
                                      S(k) == IF k = 0 THEN 0
                                              ELSE S(k - 1) + pg_reqs[k].count
                                  IN S(i - 1))
          \* a request is issued only while fewer than cap records are held,
          \* and asks for at least one record and no more than fit under the cap
          /\ pg_reqs[i].before < pg_cap
          /\ pg_reqs[i].count >= 1
          /\ pg_reqs[i].count <= 2000
          /\ pg_reqs[i].count <= pg_cap - pg_reqs[i].before
          \* an empty, failed or short page is the last request
          /\ (pg_reqs[i].fail \/ pg_reqs[i].got < pg_reqs[i].count)
                => (i = Len(pg_reqs) /\ pg_pc = "done")
    \* the loop ends for one of the three reasons
    /\ pg_pc = "done" =>
          \/ RowsLen >= pg_cap
          \/ /\ pg_reqs # <<>>
             /\ LET r == pg_reqs[Len(pg_reqs)] IN r.fail \/ r.got < r.count

\* C6: whatever the service answers, the paging loop terminates: it stops at
\* the first empty or failed page, at the first page shorter than requested,
\* or once the records collected reach the cap; each request's resultOffset
\* is the sum of the counts requested by the earlier pages.
C6_PagingTerminates ==
    /\ <>(pg_pc = "done")
    /\ [](C6_State)

\* C6 witness: the service repeated its first page, longer than asked, and
\* the loop ended on the cap after more than one request.
C6_Witness ==
    /\ pg_pc = "done"
    /\ Len(pg_reqs) >= 2
    /\ \A i \in 1..Len(pg_rows) : pg_rows[i].from = 0
    /\ \E i \in 1..Len(pg_reqs) : pg_reqs[i].got > pg_reqs[i].count
    /\ RowsLen >= pg_cap

-----------------------------------------------------------------------------
(* Claims about the geometry simplifier *)

C_Closed(ring) == ring # <<>> /\ ring[1] = ring[Len(ring)]

\* the input rings that have an output ring: the non-empty ones, in order
C_Kept == SelectSeq(g_rings, LAMBDA r : r # <<>>)

C_Total(rings) ==
    LET RECURSIVE S(_)
        S(i) == IF i = 0 THEN 0 ELSE S(i - 1) + Len(rings[i])
    IN S(Len(rings))

\* C8: simplify_rings preserves ring closure: for every closed input ring the
\* corresponding output ring has its first vertex equal to its last; and the
\* area queries send the rings unchanged, without calling simplify_rings,
\* whenever the vertex count does not exceed the 1500 threshold.
C8_ClosurePreserved ==
    /\ g_pc \in {"simplified", "sent"} /\ (g_pc = "sent" => g_called)
          => /\ Len(g_out) = Len(C_Kept)
             /\ \A i \in 1..Len(C_Kept) :
                   C_Closed(C_Kept[i]) => C_Closed(g_out[i])
    /\ (g_pc = "sent" /\ C_Total(g_rings) <= 1500)
          => (g_out = g_rings /\ ~g_called)

\* C8 witness: a closed boundary of 1501 vertices was simplified by the area
\* query to a shorter ring that is still closed.
C8_Witness ==
    /\ g_pc = "sent" /\ g_called
    /\ Len(g_rings) = 1 /\ Len(g_rings[1]) = 1501 /\ C_Closed(g_rings[1])
    /\ Len(g_out[1]) < Len(g_rings[1])
    /\ C_Closed(g_out[1])

\* C9: the ring produced by simplify_rings has no more vertices than the
\* input ring, and a ring that had at least 2 points is never reduced below
\* 2 points (closed rings such as [A, A] and [A, B, A] included).
C9_VertexCount ==
    g_pc = "simplified" =>
        \A i \in 1..Len(C_Kept) :
           /\ Len(g_out[i]) <= Len(C_Kept[i])
           /\ Len(C_Kept[i]) >= 2 => Len(g_out[i]) >= 2

\* the point list simplify_rings hands to _dp
C10_Core(ring) ==
    IF C_Closed(ring) /\ Len(ring) > 1 THEN SubSeq(ring, 1, Len(ring) - 1) ELSE ring

\* every recursive call of _dp below pts gets a strictly shorter list of at
\* least 2 points, and no _perp of the recursion divides by zero
RECURSIVE C10_WellFounded(_)
C10_WellFounded(pts) ==
    /\ \A i \in 2..(Len(pts) - 1) :
          LET d == _perp(pts[i], pts[1], pts[Len(pts)]) IN
          /\ d.divides => d.den # 0
          /\ pts[1] = pts[Len(pts)] => ~d.divides
    /\ (Len(pts) > 2 /\ dp_splits(pts)) =>
          LET l == SubSeq(pts, 1, dp_index(pts))
              r == SubSeq(pts, dp_index(pts), Len(pts))
          IN /\ 2 <= Len(l) /\ Len(l) < Len(pts)
             /\ 2 <= Len(r) /\ Len(r) < Len(pts)
             /\ C10_WellFounded(l)
             /\ C10_WellFounded(r)

\* C10: _dp terminates on every finite point list (each recursive call gets a
\* strictly shorter list of at least 2 points), _perp never divides by zero
\* when the chord endpoints coincide, and degenerate input (a ring of fewer
\* than 3 points, or a point list whose endpoint pair coincides) is returned
\* unchanged.
C10_Degenerate ==
    g_pc = "simplified" =>
        \A i \in 1..Len(C_Kept) :
           /\ C10_WellFounded(C10_Core(C_Kept[i]))
           /\ Len(C_Kept[i]) < 3 => g_out[i] = C_Kept[i]
           /\ C_Closed(C10_Core(C_Kept[i]))
                 => _dp(C10_Core(C_Kept[i])) = C10_Core(C_Kept[i])

-----------------------------------------------------------------------------
(* Claims about the date window *)

\* the date of a record, correctly parsed: FALSE when there is none
C7_HasDate(v) == v.k \in {"ms", "text"}

C7_InWindow ==
    {i \in 1..Len(s_attrs) :
        C7_HasDate(s_attrs[i]) /\ s_attrs[i].day >= MaxDay - s_days}

\* C7: given sale records whose dates are a mix of epoch-millisecond
\* integers and text dates, some unparseable or missing, and a window of W
\* days, get_recent_sales_in_polygon returns exactly the records whose
\* correctly parsed date is >= now - W days, by date descending; records
\* without a parseable date are excluded.
C7_DateWindow ==
    (s_pc = "done" /\ \E i \in 1..Len(s_attrs) : s_attrs[i].k # "absent") =>
        /\ ~s_out.raised
        /\ {s_out.rows[i] : i \in 1..Len(s_out.rows)} = C7_InWindow
        /\ Len(s_out.rows) = Cardinality(C7_InWindow)
        /\ \A i, j \in 1..Len(s_out.rows) :
              i < j => s_attrs[s_out.rows[i]].day >= s_attrs[s_out.rows[j]].day

-----------------------------------------------------------------------------
(* Claims about the folio formatter *)

\* a digit: the regular-expression class \d on the characters of the inputs
C11_MatchesD(ch) == ch \in DigitChars

\* \d{2}-\d{4}-\d{3}-\d{4}
C11_MatchesPattern(h) ==
    /\ Len(h) = 16
    /\ \A i \in 1..16 :
          IF i \in {3, 8, 12} THEN h[i] = "-" ELSE C11_MatchesD(h[i])

\* C11: format_md_folio returns for every input (empty and None included);
\* when exactly 13 digits remain after stripping the non-digit characters it
\* returns (AA-BBBB-CCC-DDDD, the 13 digits), the first component matching
\* \d{2}-\d{4}-\d{3}-\d{4} and its digits being the second component;
\* otherwise it returns (the trimmed raw text, the digits found).
C11_FormatFolio ==
    f_pc = "returned" =>
        LET s == stripped_input(f_in)
            d == SelectSeq(s, C11_MatchesD)
        IN  /\ f_out.digits = d
            /\ IF Len(d) = 13
               THEN /\ C11_MatchesPattern(f_out.hyph)
                    /\ SelectSeq(f_out.hyph, C11_MatchesD) = f_out.digits
               ELSE f_out.hyph = s

-----------------------------------------------------------------------------
(* Claims about the bulk text parser *)

\* the 13-digit value of a folio in either form
C12_DigitValue(h) == SelectSeq(h, LAMBDA ch : ch \in DigitChars)

\* the folios of a text in the order they are first seen, by digit value:
\* the text is cut at the separators and at spaces, and a piece counts when
\* it is a folio in 13-digit or in hyphenated form
RECURSIVE C12_Pieces(_, _)
C12_Pieces(t, piece) ==
    IF t = <<>> THEN <<piece>>
    ELSE IF Head(t) \in Separators \cup {" "}
         THEN <<piece>> \o C12_Pieces(Tail(t), <<>>)
         ELSE C12_Pieces(Tail(t), Append(piece, Head(t)))

C12_IsFolio(pc0) ==
    \/ Len(pc0) = 13 /\ \A i \in 1..13 : pc0[i] \in DigitChars
    \/ Len(pc0) = 16 /\ Hyphenate(C12_DigitValue(pc0)) = pc0
                       /\ Len(C12_DigitValue(pc0)) = 13

C12_NoDuplicates(out) ==
    \A i, j \in 1..Len(out) :
        C12_DigitValue(out[i]) = C12_DigitValue(out[j]) => i = j

\* C12: normalize_folios deduplicates by digit value keeping first-seen
\* order, and is idempotent under re-parsing its own output: joining its
\* output with any of the accepted separators and parsing again yields the
\* same list; folios given in hyphenated form are accepted as well as in
\* 13-digit form.
C12_ParseBulk ==
    /\ n_pc \in {"parsed", "reparsed"} =>
          /\ C12_NoDuplicates(n_out)
          /\ \A i \in 1..Len(C12_Pieces(n_text, <<>>)) :
                LET p0 == C12_Pieces(n_text, <<>>)[i] IN
                C12_IsFolio(p0) =>
                    \E k \in 1..Len(n_out) :
                        C12_DigitValue(n_out[k]) = C12_DigitValue(p0)
    /\ n_pc = "reparsed" => n_again = n_out

-----------------------------------------------------------------------------
(* Claims about the bulk resolver *)

\* the rows of the returned frame that belong to the i-th input identifier
C13_RowsOf(i) == { k \in 1..Len(b_out) : b_out[k].idx = i }

\* every identifier was processed, in input order, with one outcome each
C13_OneOutcomeEach ==
    /\ Len(b_calls) = Len(b_list)
    /\ \A i \in 1..Len(b_list) :
          /\ b_calls[i].key = b_list[i]
          /\ Cardinality(C13_RowsOf(i)) = 1
    /\ \A k \in 1..Len(b_out) :
          b_out[k].Status \in {"OK", "NOT FOUND", "ERROR"}
    /\ \A k, l \in 1..Len(b_out) : k < l => b_out[k].idx < b_out[l].idx

\* a lookup that found no record is labelled by what happened to it
C13_Labelled ==
    \A i \in 1..Len(b_rows) :
        b_rows[i].Status # "OK" =>
            b_rows[i].Status =
                IF b_calls[i].failed \/ b_calls[i].raised THEN "ERROR"
                ELSE "NOT FOUND"

\* C13: one identifier's failure never aborts the batch: every input
\* identifier is processed in input order and gets exactly one outcome among
\* OK, NOT FOUND and ERROR; an identifier whose remote lookup fails is
\* labelled ERROR and one whose lookup returns zero matches NOT FOUND.
C13_BulkOutcomes ==
    b_pc = "done" => (C13_OneOutcomeEach /\ C13_Labelled)

\* the canonical identifiers of the uploaded cells
C14_Canonical == { folio_key(b_upload[i]) : i \in 1..Len(b_upload) } \ {<<>>}

C14_SameFolio(i) == { j \in 1..Len(b_rows) : b_rows[j].Folio = b_rows[i].Folio }

\* C14: the bulk resolver deduplicates by canonical identifier before
\* processing and again on the result set: a repeated identifier has the
\* resolver invoked once and gives one output row, and of several rows
\* sharing an identifier the one kept is the first with status OK.
C14_BulkDedup ==
    b_pc = "done" =>
        /\ Len(b_calls) = Cardinality(C14_Canonical)
        /\ \A i, j \in 1..Len(b_calls) : b_calls[i].key = b_calls[j].key => i = j
        /\ \A k, l \in 1..Len(b_out) : b_out[k].Folio = b_out[l].Folio => k = l
        /\ \A k \in 1..Len(b_out) :
              LET ok == { j \in C14_SameFolio(b_out[k].idx) :
                            b_rows[j].Status = "OK" }
              IN  ok # {} => (b_out[k].idx \in ok /\ \A j \in ok : b_out[k].idx <= j)

-----------------------------------------------------------------------------
(* Claims about the memo caches *)

\* the cache of the function the last call was made to
C_CacheOf == IF c_last.fn = "arcgis_query" THEN c_qcache ELSE c_rcache

\* the last call found an entry of its arguments whose 60 minutes had not
\* elapsed
C_Hit ==
    /\ c_last # None
    /\ c_last.before # None
    /\ c_last.at < c_last.before.written + 60 * 60

\* the last call found an entry of its arguments that had expired
C_Expired ==
    /\ c_last # None
    /\ c_last.before # None
    /\ c_last.at >= c_last.before.written + 60 * 60

\* an identical call before the time-to-live elapses returns the stored
\* value, issues no remote request and leaves the entry as it was
C15_Served ==
    C_Hit => /\ c_last.ret = c_last.before.val
             /\ c_last.remote = 0
             /\ C_CacheOf[c_last.key] = c_last.before

\* no step changes or drops an entry whose time-to-live has not elapsed
C15_Immutable ==
    /\ \A k \in QueryKeys :
          (c_qcache[k] # None /\ c_now < c_qcache[k].written + 60 * 60)
              => c_qcache'[k] = c_qcache[k]
    /\ \A k \in ResolverKeys :
          (c_rcache[k] # None /\ c_now < c_rcache[k].written + 60 * 60)
              => c_rcache'[k] = c_rcache[k]

\* C15 as stated: an identical call before the time-to-live elapses is
\* served from the cache without a remote request, the entry is not modified,
\* and after the time-to-live has elapsed the next identical call issues a
\* remote request again.
C15_Original ==
    /\ C15_Served
    /\ C_Expired => c_last.remote >= 1

\* after expiry the function runs again and writes a fresh entry:
\* arcgis_query issues a remote request; get_property_by_folio issues its
\* queries through arcgis_query, and reaches the service unless a query of
\* its folio is still held by the cache of arcgis_query
C15_RunsAgain ==
    C_Expired =>
        /\ C_CacheOf[c_last.key] = [val |-> c_last.ret, written |-> c_last.at]
        /\ c_last.fn = "arcgis_query" => c_last.remote = 1
        /\ (c_last.fn = "get_property_by_folio" /\ c_last.remote = 0) =>
              \E q \in QueryKeys :
                 /\ c_qcache[q] # None
                 /\ c_last.at < c_qcache[q].written + 60 * 60

\* C15 (amended): identical calls before the time-to-live elapses are served
\* from the memo cache without a remote request; a live entry is never
\* modified or dropped; after expiry the next identical call runs the
\* function again, which for arcgis_query issues a remote request and for
\* get_property_by_folio does so unless arcgis_query still holds its queries.
C15_MemoCache ==
    /\ [](C15_Served /\ C15_RunsAgain)
    /\ [][C15_Immutable]_vars

\* C15 witness: a lookup was served from its entry half an hour or more
\* after it was written, with a record in it.
C15_Witness ==
    /\ C_Hit
    /\ c_last.fn = "get_property_by_folio"
    /\ c_last.before.val # None
    /\ c_last.at > c_last.before.written

\* C18: a failure result is memoized like a success: the None that
\* arcgis_query or get_property_by_folio returns is stored under the call's
\* arguments, and an identical call before the 60 minutes elapse returns it
\* without contacting the service, whether or not the service has recovered.
C18_FailureMemoized ==
    c_last # None =>
        /\ (~C_Hit /\ c_last.ret = None) =>
              C_CacheOf[c_last.key] = [val |-> None, written |-> c_last.at]
        /\ (C_Hit /\ c_last.before.val = None) =>
              (c_last.ret = None /\ c_last.remote = 0)

\* C18 witness: the query failed while the service was down, the service
\* came back holding a matching record, and the identical query made later
\* within the hour returned None without a request.
C18_Witness ==
    /\ C_Hit
    /\ c_last.fn = "arcgis_query"
    /\ c_last.before.val = None
    /\ c_last.ret = None /\ c_last.remote = 0
    /\ c_last.at > c_last.before.written
    /\ c_up
    /\ \E i \in 1..Len(c_table[c_last.key.src]) :
          Matches(c_last.key.w, c_table[c_last.key.src][i])

-----------------------------------------------------------------------------
(* Claims about the HTTP session *)

\* the attempts that were followed by another attempt
C16_Retried == 1..(Len(h_attempts) - 1)

C16_Bounded == Len(h_attempts) <= 1 + 4

\* the waits computed from the backoff factor do not decrease
C16_Backoff ==
    \A i, j \in 1..Len(h_sleeps) :
        (i < j /\ h_sleeps[i].k = "backoff" /\ h_sleeps[j].k = "backoff")
            => h_sleeps[i].tenths <= h_sleeps[j].tenths

\* an attempt that ended with a status that is not retried is the last one
C16_FailsAtOnce ==
    \A i \in 1..Len(h_attempts) :
        (h_attempts[i].k = "status" /\ h_attempts[i].status \in {400, 404})
            => (i = Len(h_attempts) /\ h_pc = "done")

\* C16 as stated: only idempotent requests are retried, at most 4 times after
\* the first attempt, with increasing backoff, and only when the response
\* status is one of 429, 500, 502, 503, 504; a 400 or 404 ends the request
\* at once.
C16_Original ==
    h_pc # "idle" =>
        /\ C16_Bounded
        /\ C16_Backoff
        /\ C16_FailsAtOnce
        /\ \A i \in C16_Retried :
              /\ h_method = "GET"
              /\ h_attempts[i].k = "status"
              /\ h_attempts[i].status \in {429, 500, 502, 503, 504}

\* C16 (amended): GET and POST requests are retried, at most 4 times after
\* the first attempt, with backoff waits that do not decrease, when the
\* connection or the read failed, when the response status is one of 429,
\* 500, 502, 503, 504, or when a 413 response carries Retry-After; a 400 or
\* 404 ends the request at once.
C16_RetryPolicy ==
    h_pc # "idle" =>
        /\ C16_Bounded
        /\ C16_Backoff
        /\ C16_FailsAtOnce
        /\ \A i \in C16_Retried :
              /\ h_method \in {"GET", "POST"}
              /\ \/ h_attempts[i].k \in {"connect_error", "read_error"}
                 \/ /\ h_attempts[i].k = "status"
                    /\ \/ h_attempts[i].status \in {429, 500, 502, 503, 504}
                       \/ h_attempts[i].status = 413 /\ h_attempts[i].retry_after

\* C16 witness: a POST answered 503 five times: four retries, then the
\* session gives up.
C16_Witness ==
    /\ h_pc = "done" /\ h_result = "raised" /\ h_method = "POST"
    /\ Len(h_attempts) = 5
    /\ \A i \in 1..5 : h_attempts[i].k = "status" /\ h_attempts[i].status = 503
    /\ Len(h_sleeps) = 4

-----------------------------------------------------------------------------
(* Claims about the fault surface of the public operations *)

\* C17: every public operation returns a populated result or an empty /
\* not-found value and never raises an unhandled fault, whatever the remote
\* services answer; here for get_recent_sales_in_polygon, given records that
\* carry any mix of numeric, text, unparseable and null dates.
C17_NoUnhandledFault ==
    s_pc = "done" => (s_out # None /\ ~s_out.raised)

====
